---------------------------- MODULE Spec2Model ----------------------------
(***************************************************************************)
(* Model of streamlit_app.py: the SQLite credential store and prediction   *)
(* ledger, the per-browser session_state, and the script runs that the     *)
(* widgets of the page trigger (signup, login, logout, Predict Cost, the   *)
(* four what-if scenarios, the History tab).                               *)
(*                                                                         *)
(* One action is one run of the script for one session: Streamlit re-runs  *)
(* the whole file on every widget interaction, so every action starts with *)
(* init_db() and the session bootstrap, and a run that reaches the main    *)
(* page ends with the History tab's get_user_predictions().                *)
(*                                                                         *)
(* Representation.  Text that the code measures or hashes (passwords) is a *)
(* sequence of character codes.  REAL columns are integers: bmi in tenths  *)
(* (the form's step is 0.1), costs in whole currency units.  A quotient    *)
(* of two floats is kept exact as a fraction, with the IEEE results inf    *)
(* and nan that numpy produces for a zero divisor.  datetime.now() is a    *)
(* counter that grows with every call.                                     *)
(***************************************************************************)
EXTENDS Integers, Sequences, FiniteSets, TLC

(***************************************************************************)
(* Bounds of the model.                                                    *)
(***************************************************************************)
\* datetime.now() is called at most MaxClock times: at most MaxClock INSERTs
\* (signups that reach create_user, saved predictions) happen in a behaviour.
MaxClock == 3

Sessions == {"s1"}

(***************************************************************************)
(* Inputs typed into the widgets.                                          *)
(***************************************************************************)
\* "" is the empty text_input; "alice" and "Alice" differ only in case.
UsernameInputs == {"", "alice", "Alice"}

\* Passwords as character codes: "", "abc12", "secret", "c0ffee".
PwEmpty == << >>
PwShort == <<97, 98, 99, 49, 50>>
PwSecret == <<115, 101, 99, 114, 101, 116>>
PwCoffee == <<99, 48, 102, 102, 101, 101>>
PasswordInputs == {PwEmpty, PwShort, PwSecret, PwCoffee}

\* st.session_state.username = None
None == "<None>"

\* The Predictor form (lines 617-631): number_input bounds and selectbox lists.
MinAge == 18
MaxAge == 100
MinBmi == 100
MaxBmi == 600
MinChildren == 0
MaxChildren == 10
SexOptions == <<"male", "female">>
FormRegions == <<"northeast", "northwest", "southeast", "southwest">>

Range(seq) == {seq[i] : i \in 1..Len(seq)}

\* Profiles submitted through the form: the widget defaults with smoker
\* "Yes", and profiles on and next to the bmi floor and the age ceiling; one
\* profile for each region.
FormInputs ==
    { [age |-> 30, sex |-> "male", bmi |-> 250, children |-> 0,
       smoker |-> TRUE, region |-> "northeast"],
      [age |-> MinAge, sex |-> "female", bmi |-> MinBmi, children |-> MinChildren,
       smoker |-> FALSE, region |-> "northwest"],
      [age |-> MaxAge, sex |-> "male", bmi |-> MaxBmi, children |-> MaxChildren,
       smoker |-> TRUE, region |-> "southeast"],
      [age |-> 95, sex |-> "female", bmi |-> 120, children |-> 2,
       smoker |-> FALSE, region |-> "southwest"] }

\* What the widgets accept.
InRange(p) ==
    /\ p.age \in MinAge..MaxAge
    /\ p.sex \in Range(SexOptions)
    /\ p.bmi \in MinBmi..MaxBmi
    /\ p.children \in MinChildren..MaxChildren
    /\ p.smoker \in BOOLEAN
    /\ p.region \in Range(FormRegions)

(***************************************************************************)
(* hash_password: hashlib.sha256(password.encode()).hexdigest().           *)
(* The digest is scaled down to DigestHexLen hex characters; it is a       *)
(* polynomial hash of the bytes, written out in lower-case hex.            *)
(***************************************************************************)
DigestHexLen == 6
DigestSpace == 16 ^ DigestHexLen

RECURSIVE DigestOf(_, _)
DigestOf(h, bytes) ==
    IF bytes = << >> THEN h
    ELSE DigestOf((h * 31 + Head(bytes)) % DigestSpace, Tail(bytes))

HexChar(d) == IF d < 10 THEN 48 + d ELSE 87 + d

HexDigest(n) ==
    [i \in 1..DigestHexLen |-> HexChar((n \div (16 ^ (DigestHexLen - i))) % 16)]

\* Variant: the password is stored as typed
hash_password_plaintext(password) == password

hash_password(password) == HexDigest(DigestOf(5381, password))

(***************************************************************************)
(* The model artifacts (scaler.pkl, model.keras / model.pkl) are external: *)
(* a per-feature affine scaler and a linear regression stand for them.     *)
(* "sklearn" with intercept 6750 prices the default smoker at 10000 and    *)
(* the same non-smoker at 7000; "tensorflow" with intercept -250 returns   *)
(* 0 and negative values for in-range profiles; "None" is the failed load. *)
(***************************************************************************)
Models ==
    { [type |-> "sklearn", intercept |-> 6750],
      [type |-> "tensorflow", intercept |-> -250],
      [type |-> "None", intercept |-> 0] }

ScalerMean == <<30, 0, 250, 0, 0, 0>>
ModelCoef == <<100, 200, 10, 500, 3000, 50>>

\* scaler.transform(features)
ScalerTransform(features) == [i \in 1..6 |-> features[i] - ScalerMean[i]]

RECURSIVE Dot(_, _)
Dot(a, b) == IF a = << >> THEN 0 ELSE Head(a) * Head(b) + Dot(Tail(a), Tail(b))

\* model.predict(features_scaled)[0] / model.predict(..., verbose=0)[0][0]
ModelPredict(m, features_scaled) == m.intercept + Dot(ModelCoef, features_scaled)

(***************************************************************************)
(* Feature encoding at the call sites.                                     *)
(***************************************************************************)
region_mapping == [northwest |-> 0, northeast |-> 1, southwest |-> 2, southeast |-> 3]

SexEncoded(sex) == IF sex = "female" THEN 0 ELSE 1
SmokerEncoded(smoker) == IF smoker THEN 1 ELSE 0

\* Variant: the region code is the position in the form's selectbox
Features_region_as_in_form(p) ==
    <<p.age, SexEncoded(p.sex), p.bmi, p.children, SmokerEncoded(p.smoker),
      CHOOSE i \in 0..3 : FormRegions[i + 1] = p.region>>

\* Predictor, Lose Weight, Change Region, Project 10 Years
Features(p) ==
    <<p.age, SexEncoded(p.sex), p.bmi, p.children, SmokerEncoded(p.smoker),
      region_mapping[p.region]>>

\* Quit Smoking writes the literal 0 for the smoker feature
QuitSmokingFeatures(p) ==
    <<p.age, SexEncoded(p.sex), p.bmi, p.children, 0, region_mapping[p.region]>>

\* Python's max(a, b) and min(a, b): the first argument wins a tie
PyMax(a, b) == IF b > a THEN b ELSE a
PyMin(a, b) == IF b < a THEN b ELSE a

\* Variant: the raw model output is kept
ClampPrediction_unclamped(raw) == raw

\* prediction = max(0, prediction)
ClampPrediction(raw) == PyMax(0, raw)

(***************************************************************************)
(* Float division as numpy does it: a zero divisor gives inf, -inf or nan. *)
(***************************************************************************)
FloatDiv(a, b) ==
    IF b # 0 THEN [kind |-> "finite", num |-> a, den |-> b]
    ELSE IF a > 0 THEN [kind |-> "inf", num |-> 0, den |-> 1]
    ELSE IF a < 0 THEN [kind |-> "-inf", num |-> 0, den |-> 1]
    ELSE [kind |-> "nan", num |-> 0, den |-> 1]

FloatTimes(q, k) == IF q.kind = "finite" THEN [q EXCEPT !.num = @ * k] ELSE q

\* (delta / baseline) * 100
PctChange(delta, baseline) == FloatTimes(FloatDiv(delta, baseline), 100)

(***************************************************************************)
(* Scenario transforms (pure: profile -> modified profile).                *)
(***************************************************************************)
regions == <<"northwest", "northeast", "southwest", "southeast">>

\* list.index, 1-based here
IndexOf(seq, x) == CHOOSE i \in 1..Len(seq) : seq[i] = x /\ \A j \in 1..(i - 1) : seq[j] # x

QuitSmokingTransform(p) == [p EXCEPT !.smoker = FALSE]
\* Variant: bmi - 5 without the floor
LoseWeightTransform_no_floor(p) == [p EXCEPT !.bmi = p.bmi - 50]

\* max(10, bmi - 5), in tenths
LoseWeightTransform(p) == [p EXCEPT !.bmi = PyMax(100, p.bmi - 50)]
\* Variant: the cycle runs over the order of the form's selectbox
ChangeRegionTransform_form_order(p) ==
    [p EXCEPT !.region =
        FormRegions[((IndexOf(FormRegions, p.region) - 1 + 1) % Len(FormRegions)) + 1]]

ChangeRegionTransform(p) ==
    [p EXCEPT !.region = regions[((IndexOf(regions, p.region) - 1 + 1) % Len(regions)) + 1]]
ProjectTenYearsTransform(p) == [p EXCEPT !.age = PyMin(100, p.age + 10)]

(***************************************************************************)
(* State.                                                                  *)
(***************************************************************************)
VARIABLES
    tables,         \* names of the tables that exist in users.db
    users,          \* rows of table users, in rowid order
    predictions,    \* rows of table predictions, in rowid order
    clock,          \* the last value datetime.now() returned
    model,          \* what load_model_and_scaler() returns (cached)
    session_state,  \* st.session_state of every browser session
    created,        \* history: username -> plaintext of its successful signup
    out,            \* what the last script run did and rendered
    calls           \* frame of create_user in every script-run thread

vars == <<tables, users, predictions, clock, model, session_state, created, out,
          calls>>

(***************************************************************************)
(* Database layer.                                                         *)
(***************************************************************************)
AllTables == {"users", "predictions"}

\* CREATE TABLE IF NOT EXISTS: an existing table keeps its rows
CreateTableIfNotExists(name, rows) == IF name \in tables THEN rows ELSE << >>

\* The rows after init_db(), which the script calls at the top of every run
UsersTable == CreateTableIfNotExists("users", users)
PredictionsTable == CreateTableIfNotExists("predictions", predictions)

\* Variant: the column is declared without UNIQUE
UniqueViolation_none(U, username) == FALSE

\* username TEXT UNIQUE: the INSERT raises IntegrityError on an equal username
UniqueViolation(U, username) == \E i \in 1..Len(U) : U[i].username = username

\* create_user: TRUE and the new table, or FALSE (IntegrityError) and the old
create_user(U, username, password, now) ==
    LET hashed_pw == hash_password(password) IN
    IF UniqueViolation(U, username)
    THEN [ok |-> FALSE, users |-> U]
    ELSE [ok |-> TRUE,
          users |-> Append(U, [username |-> username, password |-> hashed_pw,
                               created_at |-> now])]

\* Variant: the SELECT matches on the username alone
verify_user_username_only(U, username, password) ==
    \E i \in 1..Len(U) : U[i].username = username

\* verify_user: SELECT * FROM users WHERE username=? AND password=?
verify_user(U, username, password) ==
    LET hashed_pw == hash_password(password) IN
    \E i \in 1..Len(U) : U[i].username = username /\ U[i].password = hashed_pw

\* Variant: INSERT OR REPLACE keyed by username, one row per user
save_prediction_replacing(P, username, age, sex, bmi, children, smoker, region, prediction, now) ==
    Append(SelectSeq(P, LAMBDA r : r.username # username),
           [username |-> username, age |-> age, sex |-> sex, bmi |-> bmi,
            children |-> children, smoker |-> smoker, region |-> region,
            prediction |-> prediction, created_at |-> now])

\* save_prediction: one INSERT INTO predictions
save_prediction(P, username, age, sex, bmi, children, smoker, region, prediction, now) ==
    Append(P, [username |-> username, age |-> age, sex |-> sex, bmi |-> bmi,
               children |-> children, smoker |-> smoker, region |-> region,
               prediction |-> prediction, created_at |-> now])

RemoveAt(seq, i) == SubSeq(seq, 1, i - 1) \o SubSeq(seq, i + 1, Len(seq))

\* Variant: ORDER BY created_at (ascending)
RECURSIVE OrderByCreatedAt_asc(_)
OrderByCreatedAt_asc(rows) ==
    IF rows = << >> THEN << >>
    ELSE LET i == CHOOSE k \in 1..Len(rows) :
                     \A j \in 1..Len(rows) : rows[j].created_at >= rows[k].created_at
         IN <<rows[i]>> \o OrderByCreatedAt_asc(SubSeq(rows, 1, i - 1)
                                                 \o SubSeq(rows, i + 1, Len(rows)))

\* ORDER BY created_at DESC
RECURSIVE OrderByCreatedAtDesc(_)
OrderByCreatedAtDesc(rows) ==
    IF rows = << >> THEN << >>
    ELSE LET i == CHOOSE k \in 1..Len(rows) :
                     \A j \in 1..Len(rows) : rows[j].created_at <= rows[k].created_at
         IN <<rows[i]>> \o OrderByCreatedAtDesc(RemoveAt(rows, i))

\* SELECT age, sex, bmi, children, smoker, region, prediction, created_at
SelectColumns(r) ==
    [age |-> r.age, sex |-> r.sex, bmi |-> r.bmi, children |-> r.children,
     smoker |-> r.smoker, region |-> r.region, prediction |-> r.prediction,
     created_at |-> r.created_at]

\* get_user_predictions
get_user_predictions(P, username) ==
    LET mine == SelectSeq(P, LAMBDA r : r.username = username)
        sorted == OrderByCreatedAtDesc(mine)
    IN [i \in 1..Len(sorted) |-> SelectColumns(sorted[i])]

(***************************************************************************)
(* Session layer.                                                          *)
(***************************************************************************)
\* assignments to st.session_state: rec's keys are set, the others kept
Put(ss, rec) == rec @@ ss

\* if "logged_in" not in st.session_state: ...
Bootstrap(ss) ==
    IF "logged_in" \notin DOMAIN ss
    THEN Put(ss, [logged_in |-> FALSE, username |-> None])
    ELSE ss

\* The session as the run sees it after the bootstrap
Booted(s) == Bootstrap(session_state[s])

\* The page a run renders for session state ss when no button is pressed:
\* the login page, the "Model not found" stop, or the tabs with the History
\* tab's query.
RenderPage(ss, P) ==
    IF ~ss.logged_in THEN [page |-> "login", history |-> << >>]
    ELSE IF model.type = "None" THEN [page |-> "no_model", history |-> << >>]
    ELSE [page |-> "main", history |-> get_user_predictions(P, ss.username)]

\* Variant: the login gate of lines 573-575 is missing
OnMainPage_ungated(s) == model.type # "None"

\* The main page is on screen for session s: its buttons can be pressed
OnMainPage(s) == Booted(s).logged_in /\ model.type # "None"

\* Script-run threads that can be inside create_user at the same time
Callers == {"t1", "t2"}

\* A thread that is not inside create_user; returns holds what its calls returned
NoCall == [pc |-> "idle", username |-> None, password |-> << >>, now |-> 0,
           row |-> None, returns |-> << >>]

Init ==
    /\ calls = [t \in Callers |-> NoCall]
    /\ tables = {}
    /\ users = << >>
    /\ predictions = << >>
    /\ clock = 0
    /\ model \in Models
    /\ session_state = [s \in Sessions |-> << >>]
    /\ created = << >>
    /\ out = [op |-> "none", page |-> "none", history |-> << >>]

(***************************************************************************)
(* Script runs.  Every run starts with init_db() (line 97) and the session *)
(* bootstrap (lines 568-570).                                              *)
(***************************************************************************)

\* Variant: the History query removes the rows it has listed
Visit_consuming(s) ==
    LET ss == Booted(s) IN
    /\ tables' = AllTables
    /\ users' = UsersTable
    /\ predictions' = IF ss.logged_in /\ model.type # "None"
                      THEN SelectSeq(PredictionsTable,
                                     LAMBDA r : r.username # ss.username)
                      ELSE PredictionsTable
    /\ session_state' = [session_state EXCEPT ![s] = ss]
    /\ out' = [op |-> "visit", sess |-> s] @@ RenderPage(ss, PredictionsTable)
    /\ UNCHANGED <<clock, model, created, calls>>

\* A run with no button pressed: first visit, refresh, tab switch.
Visit(s) ==
    LET ss == Booted(s) IN
    /\ tables' = AllTables
    /\ users' = UsersTable
    /\ predictions' = PredictionsTable
    /\ session_state' = [session_state EXCEPT ![s] = ss]
    /\ out' = [op |-> "visit", sess |-> s] @@ RenderPage(ss, PredictionsTable)
    /\ UNCHANGED <<clock, model, created, calls>>

\* The Login button of show_login_page (lines 536-546).
Login(s, login_username, login_password) ==
    LET ss == Booted(s)
        filled == login_username # "" /\ login_password # << >>
        ok == filled /\ verify_user(UsersTable, login_username, login_password)
        ss1 == IF ok THEN Put(ss, [logged_in |-> TRUE, username |-> login_username])
               ELSE ss
        msg == IF ~filled THEN "enter_username_and_password"
               ELSE IF ok THEN "login_successful"
               ELSE "invalid_username_or_password"
    IN
    /\ ~ss.logged_in
    /\ tables' = AllTables
    /\ users' = UsersTable
    /\ predictions' = PredictionsTable
    /\ session_state' = [session_state EXCEPT ![s] = ss1]
    \* st.rerun() after a successful login renders the main page
    /\ out' = [op |-> "login", sess |-> s, username |-> login_username,
               called |-> filled, ret |-> ok, msg |-> msg]
              @@ RenderPage(ss1, PredictionsTable)
    /\ UNCHANGED <<clock, model, created, calls>>

\* Variant: the length check is missing
SignupCheck_no_length(signup_username, signup_password, signup_password_confirm) ==
    IF signup_username = "" \/ signup_password = << >> THEN "fill_in_all_fields"
    ELSE IF signup_password # signup_password_confirm THEN "passwords_dont_match"
    ELSE "ok"

\* The checks of the Sign Up button before create_user (lines 555-560)
SignupCheck(signup_username, signup_password, signup_password_confirm) ==
    IF signup_username = "" \/ signup_password = << >> THEN "fill_in_all_fields"
    ELSE IF signup_password # signup_password_confirm THEN "passwords_dont_match"
    ELSE IF Len(signup_password) < 6 THEN "password_too_short"
    ELSE "ok"

\* The Sign Up button of show_login_page (lines 554-565).
Signup(s, signup_username, signup_password, signup_password_confirm) ==
    LET ss == Booted(s)
        check == SignupCheck(signup_username, signup_password, signup_password_confirm)
        r == create_user(UsersTable, signup_username, signup_password, clock + 1)
    IN
    /\ ~ss.logged_in
    /\ tables' = AllTables
    /\ predictions' = PredictionsTable
    /\ session_state' = [session_state EXCEPT ![s] = ss]
    /\ IF check = "ok"
       THEN /\ clock < MaxClock
            /\ clock' = clock + 1
            /\ users' = r.users
            /\ created' = IF r.ok THEN Put(created, signup_username :> signup_password)
                          ELSE created
            /\ out' = [op |-> "signup", sess |-> s, username |-> signup_username,
                       password |-> signup_password,
                       confirm |-> signup_password_confirm,
                       called |-> TRUE, ret |-> r.ok,
                       msg |-> IF r.ok THEN "account_created"
                               ELSE "username_already_exists",
                       page |-> "login", history |-> << >>]
       ELSE /\ users' = UsersTable
            /\ out' = [op |-> "signup", sess |-> s, username |-> signup_username,
                       called |-> FALSE, ret |-> FALSE,
                       msg |-> check, page |-> "login", history |-> << >>]
            /\ UNCHANGED <<clock, created>>
    /\ UNCHANGED <<model, calls>>

\* The Logout button of the sidebar (lines 593-599).
Logout(s) ==
    LET ss == Booted(s)
        ss1 == Put(ss, [logged_in |-> FALSE, username |-> None])
    IN
    /\ ss.logged_in
    /\ tables' = AllTables
    /\ users' = UsersTable
    /\ predictions' = PredictionsTable
    /\ session_state' = [session_state EXCEPT ![s] = ss1]
    /\ out' = [op |-> "logout", sess |-> s] @@ RenderPage(ss1, PredictionsTable)
    /\ UNCHANGED <<clock, model, created, calls>>

\* The Predict Cost button (lines 634-685).
Predict(s, form) ==
    LET ss == Booted(s)
        features == Features(form)
        features_scaled == ScalerTransform(features)
        raw == ModelPredict(model, features_scaled)
        prediction == ClampPrediction(raw)
        P1 == save_prediction(PredictionsTable, ss.username, form.age, form.sex,
                              form.bmi, form.children, SmokerEncoded(form.smoker),
                              form.region, prediction, clock + 1)
        ss1 == Put(ss, [last_prediction |-> prediction, last_formdata |-> form])
    IN
    /\ OnMainPage(s)
    /\ clock < MaxClock
    /\ tables' = AllTables
    /\ users' = UsersTable
    /\ predictions' = P1
    /\ clock' = clock + 1
    /\ session_state' = [session_state EXCEPT ![s] = ss1]
    /\ out' = [op |-> "predict", sess |-> s, username |-> ss.username, form |-> form,
               features |-> features, raw |-> raw, prediction |-> prediction]
              @@ RenderPage(ss1, P1)
    /\ UNCHANGED <<model, created, calls>>

\* Variant: the baseline is stored before save_prediction is called
SessionAfterFailedPredict_early(ss, form, prediction, fault) ==
    IF fault = "storage"
    THEN Put(ss, [last_prediction |-> prediction, last_formdata |-> form])
    ELSE ss

\* The assignments of lines 681-685 come after inference (648-654) and
\* save_prediction (659-660): an exception in either leaves the session alone
SessionAfterFailedPredict(ss, form, prediction, fault) == ss

\* The Predict Cost button when scaler.transform / model.predict raises
\* (fault "inference") or save_prediction raises a sqlite3 error (fault
\* "storage", after datetime.now() was evaluated): the run stops there.
PredictFails(s, form, fault) ==
    LET ss == Booted(s)
        prediction == ClampPrediction(ModelPredict(model, ScalerTransform(Features(form))))
    IN
    /\ OnMainPage(s)
    /\ tables' = AllTables
    /\ users' = UsersTable
    /\ predictions' = PredictionsTable
    /\ IF fault = "storage"
       THEN clock < MaxClock /\ clock' = clock + 1
       ELSE clock' = clock
    /\ session_state' = [session_state EXCEPT ![s] =
                            SessionAfterFailedPredict(ss, form, prediction, fault)]
    /\ out' = [op |-> "predict_failed", sess |-> s, fault |-> fault,
               page |-> "error", history |-> << >>]
    /\ UNCHANGED <<model, created, calls>>

(***************************************************************************)
(* Scenarios tab (lines 744-882).  The buttons exist only when the session *)
(* holds a last_prediction.                                                *)
(***************************************************************************)
ScenariosShown(s) == OnMainPage(s) /\ "last_prediction" \in DOMAIN Booted(s)

\* Variant: modified = st.session_state.last_formdata, the same dict
AfterCopy_aliased(ss, modified) == Put(ss, [last_formdata |-> modified])

\* modified = st.session_state.last_formdata.copy(): the scenario edits a
\* copy, the dict held by the session is left as it is
AfterCopy(ss, modified) == ss

\* Variant: every scenario reports new_pred - last_prediction
ScenarioResult_one_sign(op, s, ss, modified, features, kind) ==
    LET new_pred == ModelPredict(model, ScalerTransform(features))
        delta == new_pred - ss.last_prediction
    IN [op |-> op, sess |-> s, ran |-> TRUE,
        baseline |-> ss.last_formdata, baseline_cost |-> ss.last_prediction,
        modified |-> modified, features |-> features, new_pred |-> new_pred,
        kind |-> kind, delta |-> delta,
        pct_change |-> PctChange(delta, ss.last_prediction)]

\* Re-prediction and delta of one scenario.  kind "savings" is
\* last_prediction - new_pred, kind "difference" is new_pred - last_prediction.
ScenarioResult(op, s, ss, modified, features, kind) ==
    LET features_scaled == ScalerTransform(features)
        new_pred == ModelPredict(model, features_scaled)
        delta == IF kind = "savings" THEN ss.last_prediction - new_pred
                 ELSE new_pred - ss.last_prediction
    IN [op |-> op, sess |-> s, ran |-> TRUE,
        baseline |-> ss.last_formdata, baseline_cost |-> ss.last_prediction,
        modified |-> modified, features |-> features, new_pred |-> new_pred,
        kind |-> kind, delta |-> delta,
        pct_change |-> PctChange(delta, ss.last_prediction)]

\* What every scenario run leaves behind
ScenarioRun(s, ss1, result) ==
    /\ ScenariosShown(s)
    /\ tables' = AllTables
    /\ users' = UsersTable
    /\ predictions' = PredictionsTable
    /\ session_state' = [session_state EXCEPT ![s] = ss1]
    /\ out' = result @@ RenderPage(ss1, PredictionsTable)
    /\ UNCHANGED <<clock, model, created, calls>>

\* Variant: the smoker check is missing
QuitSmokingApplies_always(fd) == TRUE

\* Quit Smoking (lines 758-786)
QuitSmokingApplies(fd) == fd.smoker

QuitSmoking(s) ==
    LET ss == Booted(s)
        modified == QuitSmokingTransform(ss.last_formdata)
    IN
    /\ ScenariosShown(s)
    /\ IF QuitSmokingApplies(ss.last_formdata)
       THEN ScenarioRun(s, AfterCopy(ss, modified),
                        ScenarioResult("quit_smoking", s, ss, modified,
                                       QuitSmokingFeatures(modified), "savings"))
       ELSE ScenarioRun(s, ss,
                        [op |-> "quit_smoking", sess |-> s, ran |-> FALSE,
                         baseline |-> ss.last_formdata,
                         baseline_cost |-> ss.last_prediction,
                         msg |-> "already_a_non_smoker"])

\* Lose Weight (lines 791-816)
LoseWeight(s) ==
    LET ss == Booted(s)
        modified == LoseWeightTransform(ss.last_formdata)
    IN
    /\ ScenariosShown(s)
    /\ ScenarioRun(s, AfterCopy(ss, modified),
                   ScenarioResult("lower_bmi", s, ss, modified,
                                  Features(modified), "savings"))

\* Change Region (lines 825-852)
ChangeRegion(s) ==
    LET ss == Booted(s)
        modified == ChangeRegionTransform(ss.last_formdata)
    IN
    /\ ScenariosShown(s)
    /\ ScenarioRun(s, AfterCopy(ss, modified),
                   ScenarioResult("change_region", s, ss, modified,
                                  Features(modified), "difference"))

\* Project 10 Years (lines 857-882)
ProjectTenYears(s) ==
    LET ss == Booted(s)
        modified == ProjectTenYearsTransform(ss.last_formdata)
    IN
    /\ ScenariosShown(s)
    /\ ScenarioRun(s, AfterCopy(ss, modified),
                   ScenarioResult("age_factor", s, ss, modified,
                                  Features(modified), "difference"))

\* The server process restarts (or the browser opens a new session): every
\* st.session_state is gone, users.db stays on disk.
Restart ==
    /\ session_state' = [s \in Sessions |-> << >>]
    /\ out' = [op |-> "restart", page |-> "none", history |-> << >>]
    /\ UNCHANGED <<tables, users, predictions, clock, model, created, calls>>

Next ==
    \/ \E s \in Sessions : Visit(s)
    \/ \E s \in Sessions, u \in UsernameInputs, p \in PasswordInputs : Login(s, u, p)
    \/ \E s \in Sessions, u \in UsernameInputs, p \in PasswordInputs,
          c \in PasswordInputs : Signup(s, u, p, c)
    \/ \E s \in Sessions : Logout(s)
    \/ \E s \in Sessions, form \in FormInputs : Predict(s, form)
    \/ \E s \in Sessions, form \in FormInputs, fault \in {"inference", "storage"} :
          PredictFails(s, form, fault)
    \/ \E s \in Sessions : QuitSmoking(s)
    \/ \E s \in Sessions : LoseWeight(s)
    \/ \E s \in Sessions : ChangeRegion(s)
    \/ \E s \in Sessions : ProjectTenYears(s)
    \/ Restart

Spec == Init /\ [][Next]_vars

(***************************************************************************)
(* create_user (lines 47-60) step by step, for script runs of several      *)
(* sessions that press Sign Up at the same time.  Every call opens its own *)
(* connection; SQLite lets one connection write at a time, from the INSERT *)
(* to the commit.                                                          *)
(***************************************************************************)

\* Variant: no write lock, every connection inserts at once
WriteLockFree_none(t) == TRUE

\* No other connection is between its INSERT and its commit
WriteLockFree(t) == \A d \in Callers \ {t} : calls[d].pc # "commit"

\* Lines 561-562 and 49-54: the Sign Up checks passed, create_user is entered
\* and the arguments of execute are evaluated, datetime.now() among them.
CallCreateUser(t, signup_username, signup_password) ==
    /\ calls[t].pc = "idle"
    /\ SignupCheck(signup_username, signup_password, signup_password) = "ok"
    /\ clock < MaxClock
    /\ clock' = clock + 1
    /\ calls' = [calls EXCEPT ![t] =
                   [@ EXCEPT !.pc = "execute", !.username = signup_username,
                             !.password = signup_password, !.now = clock + 1]]
    /\ UNCHANGED <<tables, users, predictions, model, session_state, created, out>>

\* Lines 53-54 and 58-59: c.execute(INSERT) waits for the write lock, then
\* either raises IntegrityError, create_user returns False and the connection
\* is dropped, or leaves the new row pending in the open transaction.
ExecuteInsert(t) ==
    LET f == calls[t]
        r == create_user(users, f.username, f.password, f.now)
    IN
    /\ f.pc = "execute"
    /\ WriteLockFree(t)
    /\ calls' = [calls EXCEPT ![t] =
                   IF r.ok
                   THEN [f EXCEPT !.pc = "commit", !.row = r.users[Len(r.users)]]
                   ELSE [NoCall EXCEPT !.returns =
                           Append(f.returns, [username |-> f.username,
                                              now |-> f.now, ret |-> FALSE])]]
    /\ UNCHANGED <<tables, users, predictions, clock, model, session_state,
                   created, out>>

\* Lines 55-57: conn.commit(), conn.close(), return True
CommitInsert(t) ==
    LET f == calls[t] IN
    /\ f.pc = "commit"
    /\ users' = Append(users, f.row)
    /\ created' = Put(created, f.username :> f.password)
    /\ calls' = [calls EXCEPT ![t] =
                   [NoCall EXCEPT !.returns =
                      Append(f.returns, [username |-> f.username,
                                         now |-> f.now, ret |-> TRUE])]]
    /\ UNCHANGED <<tables, predictions, clock, model, session_state, out>>

\* The application is up, the sessions are on the login page
InitConcurrent ==
    /\ calls = [t \in Callers |-> NoCall]
    /\ tables = AllTables
    /\ users = << >>
    /\ predictions = << >>
    /\ clock = 0
    /\ model \in Models
    /\ session_state = [s \in Sessions |-> Bootstrap(<< >>)]
    /\ created = << >>
    /\ out = [op |-> "none", page |-> "login", history |-> << >>]

NextConcurrent ==
    \/ \E t \in Callers, u \in UsernameInputs, p \in PasswordInputs :
          CallCreateUser(t, u, p)
    \/ \E t \in Callers : ExecuteInsert(t)
    \/ \E t \in Callers : CommitInsert(t)

SpecConcurrent == InitConcurrent /\ [][NextConcurrent]_vars

(***************************************************************************)
(* Properties.                                                             *)
(***************************************************************************)

\* C1: after a successful create_user(u, p), verify_user(u, p) is true in
\* every later state and verify_user(u, p') is false for every other
\* password p'; for a username that was never created verify_user is false
\* for every password; and a Login run, which is where verify_user is
\* called, leaves both tables as they were.
C1_CreateThenVerify ==
    /\ [](/\ \A u \in DOMAIN created :
               /\ verify_user(users, u, created[u])
               /\ \A p \in PasswordInputs \ {created[u]} : ~verify_user(users, u, p)
          /\ \A u \in UsernameInputs \ DOMAIN created :
               \A p \in PasswordInputs : ~verify_user(users, u, p)
          /\ (out.op = "login" /\ out.called /\ out.username \notin DOMAIN created)
                => (out.ret = FALSE /\ out.msg = "invalid_username_or_password"))
    /\ [][out'.op = "login" => (users' = users /\ predictions' = predictions)]_vars

\* A login with the credentials of an earlier signup has succeeded.
C1_Witness ==
    /\ out.op = "login"
    /\ out.ret = TRUE
    /\ out.username \in DOMAIN created

\* C2: a create_user call for a username that is already in the table
\* returns False ("Username already exists") whatever the password, and the
\* users table is the same afterwards, so the first password still verifies
\* and the second one does not.
C2_SecondSignupRejected ==
    [][(out'.op = "signup" /\ out'.called /\ out'.username \in DOMAIN created)
         => /\ out'.ret = FALSE
            /\ out'.msg = "username_already_exists"
            /\ users' = users
            /\ verify_user(users', out'.username, created[out'.username])
            /\ (out'.password # created[out'.username]
                  => ~verify_user(users', out'.username, out'.password))]_vars

\* A second signup for a taken username, with another password, was refused.
C2_Witness ==
    /\ out.op = "signup"
    /\ out.called
    /\ ~out.ret
    /\ out.username \in DOMAIN created
    /\ out.password # created[out.username]

\* C3: every stored password is the digest of the password given at signup
\* (so equal passwords give equal stored values) and never that password
\* itself.
C3_DigestStored ==
    \A i \in 1..Len(users) :
        /\ users[i].username \in DOMAIN created
        /\ users[i].password = hash_password(created[users[i].username])
        /\ users[i].password # created[users[i].username]
        /\ \A j \in 1..Len(users) :
             created[users[i].username] = created[users[j].username]
                => users[i].password = users[j].password

\* Two accounts were created with the same password.
C3_Witness ==
    /\ Len(users) = 2
    /\ created[users[1].username] = created[users[2].username]

\* C4: every row of predictions has prediction >= 0, and the value a
\* Predict run computes and saves is the raw model output clamped at 0.
C4_NonNegativeCost ==
    /\ \A i \in 1..Len(predictions) : predictions[i].prediction >= 0
    /\ out.op = "predict"
         => /\ InRange(out.form)
            /\ out.prediction >= 0
            /\ out.prediction = (IF out.raw < 0 THEN 0 ELSE out.raw)
            /\ predictions[Len(predictions)].prediction = out.prediction

\* A prediction with a negative raw model output was saved.
C4_Witness ==
    /\ out.op = "predict"
    /\ out.raw < 0
    /\ Len(predictions) >= 1

\* C5: right after a Predict run has saved a record for user u,
\* get_user_predictions(u) lists that record first, with the submitted
\* profile (smoker as 0/1) and the saved cost, and every other record of u
\* after it with an older created_at.
C5_NewestFirst ==
    out.op = "predict"
      => LET h == get_user_predictions(predictions, out.username) IN
         /\ h = out.history
         /\ Len(h) = Cardinality({i \in 1..Len(predictions) :
                                    predictions[i].username = out.username})
         /\ h[1] = [age |-> out.form.age, sex |-> out.form.sex,
                    bmi |-> out.form.bmi, children |-> out.form.children,
                    smoker |-> IF out.form.smoker THEN 1 ELSE 0,
                    region |-> out.form.region, prediction |-> out.prediction,
                    created_at |-> clock]
         /\ \A i \in 2..Len(h) : h[i].created_at < h[1].created_at

\* A second prediction of the same user was saved and listed.
C5_Witness ==
    /\ out.op = "predict"
    /\ Len(out.history) >= 2

\* C6: a run that only shows the History tab (no button pressed) changes
\* neither table, and the list it shows is the one the previous run of the
\* same session showed: two get_user_predictions calls with no write in
\* between return the same rows in the same order.
C6_HistoryIsPureRead ==
    [][(out'.op = "visit" /\ out'.page = "main")
         => /\ users' = users
            /\ predictions' = predictions
            /\ out'.history = get_user_predictions(predictions',
                                  session_state'[out'.sess].username)
            /\ (out.page = "main" /\ out.sess = out'.sess)
                 => out'.history = out.history]_vars

\* The History tab was shown, with records, in a run that pressed no button.
C6_Witness ==
    /\ out.op = "visit"
    /\ out.page = "main"
    /\ Len(out.history) >= 1

\* C7: in every step (signup, login, logout, prediction, scenario, history
\* view, restart) the rows already in predictions stay where they are with
\* the same values; the only change is one row appended, by a Predict run.
C7_AppendOnly ==
    [][/\ Len(predictions') >= Len(predictions)
       /\ SubSeq(predictions', 1, Len(predictions)) = predictions
       /\ Len(predictions') <= Len(predictions) + 1
       /\ Len(predictions') = Len(predictions) + 1 => out'.op = "predict"]_vars

\* Two saved records are still there after a restart.
C7_Witness ==
    /\ out.op = "restart"
    /\ Len(predictions) >= 2

\* C8: Quit Smoking on a baseline with smoker = False makes no new
\* prediction and reports no savings or percent; the run ends normally on
\* the main page with "You're already a non-smoker" and the session's
\* baseline is what it was.
C8_QuitSmokingNonSmoker ==
    (out.op = "quit_smoking" /\ ~out.baseline.smoker)
      => /\ ~out.ran
         /\ out.msg = "already_a_non_smoker"
         /\ DOMAIN out \cap {"new_pred", "delta", "pct_change", "modified"} = {}
         /\ out.page = "main"
         /\ session_state[out.sess].last_formdata = out.baseline
         /\ session_state[out.sess].last_prediction = out.baseline_cost

\* Quit Smoking was pressed on a non-smoker baseline.
C8_Witness ==
    /\ out.op = "quit_smoking"
    /\ ~out.baseline.smoker

\* C9: Change Region maps northwest -> northeast -> southwest -> southeast
\* -> northwest for every baseline region the form can give, and applying
\* the transform four times gives the region back.
C9_RegionCycle ==
    LET next == [northwest |-> "northeast", northeast |-> "southwest",
                 southwest |-> "southeast", southeast |-> "northwest"]
        step(r) == ChangeRegionTransform([region |-> r]).region
    IN
    /\ \A r \in Range(FormRegions) :
         /\ step(r) = next[r]
         /\ step(step(step(step(r)))) = r
    /\ out.op = "change_region"
         => /\ out.baseline.region \in Range(FormRegions)
            /\ out.modified.region = next[out.baseline.region]

\* Change Region ran on a southeast baseline and wrapped to northwest.
C9_Witness ==
    /\ out.op = "change_region"
    /\ out.baseline.region = "southeast"
    /\ out.modified.region = "northwest"

\* C10 as stated: after a scenario run the session's baseline is the one
\* the run started from, and the modified profile differs from it in
\* exactly the one field the transform names.
C10_Original ==
    (out.op \in {"quit_smoking", "lower_bmi", "change_region", "age_factor"} /\ out.ran)
      => LET field == [quit_smoking |-> "smoker", lower_bmi |-> "bmi",
                       change_region |-> "region", age_factor |-> "age"]
         IN
         /\ session_state[out.sess].last_formdata = out.baseline
         /\ session_state[out.sess].last_prediction = out.baseline_cost
         /\ {f \in DOMAIN out.baseline : out.modified[f] # out.baseline[f]}
              = {field[out.op]}

\* The baseline a session holds: last_formdata and last_prediction, if any
Baseline(ss) ==
    IF "last_prediction" \in DOMAIN ss
    THEN <<ss.last_formdata, ss.last_prediction>>
    ELSE << >>

\* C10: no scenario run changes the session's baseline, which is the profile
\* and cost the last Predict run stored; the modified profile differs from
\* the baseline in no field but the one the transform names, and in that
\* field unless the transform is clamped to no change (Lose Weight on bmi
\* 10.0, Project 10 Years on age 100); so no scenario sees another's result.
C10_BaselineKept ==
    /\ []((out.op \in {"quit_smoking", "lower_bmi", "change_region", "age_factor"}
           /\ out.ran)
            => {f \in DOMAIN out.baseline : out.modified[f] # out.baseline[f]}
                 = IF \/ out.op = "lower_bmi" /\ out.baseline.bmi = 100
                      \/ out.op = "age_factor" /\ out.baseline.age = 100
                   THEN {}
                   ELSE {[quit_smoking |-> "smoker", lower_bmi |-> "bmi",
                          change_region |-> "region",
                          age_factor |-> "age"][out.op]})
    /\ [][/\ out'.op \in {"quit_smoking", "lower_bmi", "change_region", "age_factor"}
             => /\ Baseline(session_state'[out'.sess])
                     = Baseline(session_state[out'.sess])
                /\ Baseline(session_state'[out'.sess])
                     = <<out'.baseline, out'.baseline_cost>>
          /\ out'.op = "predict"
             => Baseline(session_state'[out'.sess]) = <<out'.form, out'.prediction>>
         ]_vars

\* Lose Weight ran on a smoker baseline: the modified profile still smokes
\* and the session still holds the baseline.
C10_Witness ==
    /\ out.op = "lower_bmi"
    /\ out.baseline.smoker
    /\ out.modified.smoker
    /\ out.modified.bmi # out.baseline.bmi
    /\ session_state[out.sess].last_formdata = out.baseline

\* C11: when the baseline cost is 0, a scenario that computes a percent
\* change reports the undefined sentinel (not-a-number) for it, and the run
\* ends normally on the main page.
C11_PercentGuarded ==
    (/\ out.op \in {"quit_smoking", "lower_bmi", "change_region", "age_factor"}
     /\ out.ran
     /\ out.baseline_cost = 0)
      => /\ out.pct_change.kind \in {"nan", "undefined"}
         /\ out.page = "main"

\* C12: the profile of every Predict run and the modified profile of every
\* scenario run are within the form's ranges, and so are the features given
\* to the scaler; Lose Weight gives bmi = max(10, bmi - 5) and Project 10
\* Years gives age = min(100, age + 10).
C12_ProfilesInRange ==
    /\ out.op = "predict" => InRange(out.form)
    /\ (out.op \in {"quit_smoking", "lower_bmi", "change_region", "age_factor"}
        /\ out.ran)
         => /\ InRange(out.baseline)
            /\ InRange(out.modified)
            /\ out.features[1] \in 18..100
            /\ out.features[3] \in 100..600
            /\ out.features[4] \in 0..10
            /\ out.features[6] \in 0..3
            /\ out.op = "lower_bmi"
                 => /\ out.modified.bmi >= 100
                    /\ out.modified.bmi = IF out.baseline.bmi - 50 < 100 THEN 100
                                          ELSE out.baseline.bmi - 50
            /\ out.op = "age_factor"
                 => /\ out.modified.age <= 100
                    /\ out.modified.age = IF out.baseline.age + 10 > 100 THEN 100
                                          ELSE out.baseline.age + 10

\* Lose Weight ran on a baseline bmi of 12.0 and stopped at the floor 10.0.
C12_Witness ==
    /\ out.op = "lower_bmi"
    /\ out.baseline.bmi = 120
    /\ out.modified.bmi = 100

\* C13: with a baseline cost other than 0, Quit Smoking and Lose Weight
\* report savings = baseline - new and percent = savings / baseline * 100
\* (10000 and 7000 give 3000 and 30); Change Region and Project 10 Years
\* report difference = new - baseline, with percent = difference /
\* baseline * 100.
C13_DeltaAndPercent ==
    (/\ out.op \in {"quit_smoking", "lower_bmi", "change_region", "age_factor"}
     /\ out.ran
     /\ out.baseline_cost # 0)
      => /\ out.op \in {"quit_smoking", "lower_bmi"}
              => out.delta = out.baseline_cost - out.new_pred
         /\ out.op \in {"change_region", "age_factor"}
              => out.delta = out.new_pred - out.baseline_cost
         /\ out.pct_change.kind = "finite"
         /\ out.pct_change.num = out.delta * 100
         /\ out.pct_change.den = out.baseline_cost
         /\ (out.op = "quit_smoking" /\ out.baseline_cost = 10000
             /\ out.new_pred = 7000)
              => /\ out.delta = 3000
                 /\ out.pct_change.num = 30 * out.pct_change.den

\* Quit Smoking ran on a baseline of 10000 and the new cost is 7000.
C13_Witness ==
    /\ out.op = "quit_smoking"
    /\ out.ran
    /\ out.baseline_cost = 10000
    /\ out.new_pred = 7000

\* C14: a Predict run that succeeds appends exactly one record, holding the
\* clamped model output, and replaces the session's baseline with that
\* profile and cost; a Predict run in which inference or the ledger write
\* fails appends nothing and leaves the baseline as it was; and the baseline
\* is replaced by nothing but a successful Predict run.
C14_NoPartialPredict ==
    [][/\ out'.op = "predict"
          => /\ predictions' = Append(predictions, predictions'[Len(predictions')])
             /\ predictions'[Len(predictions')].prediction = out'.prediction
             /\ out'.prediction = (IF out'.raw < 0 THEN 0 ELSE out'.raw)
             /\ Baseline(session_state'[out'.sess]) = <<out'.form, out'.prediction>>
       /\ out'.op = "predict_failed"
          => /\ predictions' = predictions
             /\ Baseline(session_state'[out'.sess]) = Baseline(session_state[out'.sess])
       /\ \A s \in Sessions :
            (/\ Baseline(session_state'[s]) # Baseline(session_state[s])
             /\ Baseline(session_state'[s]) # << >>)
              => /\ out'.op = "predict"
                 /\ out'.sess = s
                 /\ Len(predictions') = Len(predictions) + 1
      ]_vars

\* The ledger write of a Predict run failed in a session that holds a baseline.
C14_Witness ==
    /\ out.op = "predict_failed"
    /\ out.fault = "storage"
    /\ "last_prediction" \in DOMAIN session_state[out.sess]

\* C15: create_user is called only by a Sign Up run whose username and
\* password are not empty, whose password has 6 or more characters and
\* equals its confirmation; a run that fails one of these checks leaves the
\* users table as it was; so every row of users comes from a signup with
\* a password of 6 or more characters.
C15_SignupValidated ==
    /\ [](/\ \A i \in 1..Len(users) :
               /\ users[i].username \in DOMAIN created
               /\ users[i].username # ""
               /\ Len(created[users[i].username]) >= 6
          /\ (out.op = "signup" /\ out.called)
               => /\ out.username # ""
                  /\ out.password # << >>
                  /\ Len(out.password) >= 6
                  /\ out.password = out.confirm
          /\ (out.op = "signup" /\ ~out.called)
               => out.msg \in {"fill_in_all_fields", "passwords_dont_match",
                               "password_too_short"})
    /\ [][(out'.op = "signup" /\ ~out'.called)
            => /\ users' = users
               /\ clock' = clock
               /\ created' = created]_vars

\* A signup with a 5-character password was turned away while an account exists.
C15_Witness ==
    /\ out.op = "signup"
    /\ out.msg = "password_too_short"
    /\ ~out.called
    /\ Len(users) >= 1

\* C16: the feature vector of a Predict run is the reference encoding of
\* the submitted profile, [age, sex, bmi, children, smoker, region] with
\* female 0 / male 1, non-smoker 0 / smoker 1 and northwest 0, northeast 1,
\* southwest 2, southeast 3; the feature vector of every scenario run is the
\* reference encoding of its modified profile; Quit Smoking's vector has
\* smoker 0 and the baseline's encoding everywhere else.
C16_ReferenceEncoding ==
    LET ref(p) ==
          <<p.age,
            CASE p.sex = "female" -> 0 [] p.sex = "male" -> 1,
            p.bmi,
            p.children,
            CASE p.smoker = FALSE -> 0 [] p.smoker = TRUE -> 1,
            CASE p.region = "northwest" -> 0 [] p.region = "northeast" -> 1
              [] p.region = "southwest" -> 2 [] p.region = "southeast" -> 3>>
    IN
    /\ out.op = "predict" => out.features = ref(out.form)
    /\ (out.op \in {"quit_smoking", "lower_bmi", "change_region", "age_factor"}
        /\ out.ran)
         => /\ out.features = ref(out.modified)
            /\ out.op = "quit_smoking"
                 => /\ out.features[5] = 0
                    /\ \A i \in {1, 2, 3, 4, 6} :
                         out.features[i] = ref(out.baseline)[i]

\* Quit Smoking ran on a smoker from the southeast (region code 3).
C16_Witness ==
    /\ out.op = "quit_smoking"
    /\ out.ran
    /\ out.baseline.smoker
    /\ out.features[5] = 0
    /\ out.features[6] = 3

\* C17: the new cost of every scenario run is what the Predictor would
\* return for the modified profile, the raw model output clamped at 0, and
\* so is never negative.
C17_ScenarioCostClamped ==
    (out.op \in {"quit_smoking", "lower_bmi", "change_region", "age_factor"}
     /\ out.ran)
      => /\ out.new_pred >= 0
         /\ out.new_pred = ClampPrediction(
                ModelPredict(model, ScalerTransform(Features(out.modified))))

\* C18: a session holds a scenario baseline only while a user is logged
\* in, and the baseline is a prediction that this user has in the ledger:
\* logging out discards it.
C18_BaselineOfCurrentLogin ==
    \A s \in Sessions :
        "last_prediction" \in DOMAIN session_state[s]
          => /\ session_state[s].logged_in
             /\ \E i \in 1..Len(predictions) :
                  /\ predictions[i].username = session_state[s].username
                  /\ predictions[i].prediction = session_state[s].last_prediction
                  /\ predictions[i].age = session_state[s].last_formdata.age
                  /\ predictions[i].bmi = session_state[s].last_formdata.bmi
                  /\ predictions[i].region = session_state[s].last_formdata.region

C20_AuthenticatedOnly ==
    /\ [](/\ \A s \in Sessions :
               Booted(s).logged_in
                 => \E j \in 1..Len(users) :
                        users[j].username = session_state[s].username
          /\ (out.op \in {"predict", "predict_failed", "quit_smoking",
                          "lower_bmi", "change_region", "age_factor"}
              \/ out.page = "main" \/ out.history # << >>)
               => Booted(out.sess).logged_in
          /\ \A i \in 1..Len(predictions) :
               \E j \in 1..Len(users) :
                   users[j].username = predictions[i].username)
    /\ [][\A s \in Sessions :
            (~Booted(s).logged_in /\ (Booted(s).logged_in)')
              => /\ out'.op = "login"
                 /\ out'.sess = s
                 /\ out'.called
                 /\ out'.ret
                 /\ out'.username = session_state'[s].username
                 /\ \E p \in PasswordInputs :
                        verify_user(users', session_state'[s].username, p)]_vars

\* A logged-in user has just made a prediction that the ledger holds.
C20_Witness ==
    /\ out.op = "predict"
    /\ Booted(out.sess).logged_in
    /\ Len(predictions) >= 1
    /\ predictions[Len(predictions)].username = session_state[out.sess].username

====
